---- MODULE Spec2Model ----
(***************************************************************************)
(* Model of nnvm/include/nnvm/node.h: the Node / NodeEntry / NodeAttrs     *)
(* data model of the nnvm dataflow graph, the arity queries of Node and    *)
(* the shared ownership (NodePtr = std::shared_ptr<Node>) of nodes.        *)
(***************************************************************************)
EXTENDS Integers, Sequences, FiniteSets, TLC

\* ------------------------------------------------------------------ bounds
MaxNodes   == 3   \* node objects that may be live at the same time
MaxExt     == 1   \* NodePtr handles held outside the graph, per node
MaxInputs  == 1   \* length of Node::inputs
MaxDeps    == 1   \* length of Node::control_deps
MaxIndex   == 1   \* largest NodeEntry::index a caller passes
MaxVersion == 1   \* largest NodeEntry::version a caller passes
MaxCount   == 2   \* largest count an attribute asks for
ArityNodes == 2   \* node objects used by the arity specification
EntryNodes == 2   \* node objects used by the entry specification

Node == 1..MaxNodes
NULL == "nullptr"
None == "empty"

\* ------------------------------------------------------- operator registry
\* get_num_outputs / get_num_inputs are nullable function pointers; a
\* callback is named by the attribute key it reads.
OpTable ==
  [ add    |-> [num_inputs |-> 2, num_outputs |-> 1,
                get_num_inputs |-> NULL, get_num_outputs |-> NULL],
    split  |-> [num_inputs |-> 1, num_outputs |-> 1,
                get_num_inputs |-> NULL, get_num_outputs |-> "num_outputs"],
    concat |-> [num_inputs |-> 1, num_outputs |-> 1,
                get_num_inputs |-> "num_args", get_num_outputs |-> NULL] ]

Ops == DOMAIN OpTable

\* the count a textual attribute value denotes
ParseCount(s) == CHOOSE k \in 0..(MaxCount + 1) : ToString(k) = s

\* a dynamic-arity callback applied to a NodeAttrs value
ApplyCallback(f, attrs) ==
  IF f \in DOMAIN attrs.dict THEN ParseCount(attrs.dict[f]) ELSE 0

\* ------------------------------------------------------------- NodeAttrs
EmptyDict == [k \in {} |-> ""]

DefaultAttrs == [name |-> "", scalars |-> <<>>, dict |-> EmptyDict, parsed |-> None]

AllAttrs ==
  {DefaultAttrs} \cup
  { [DefaultAttrs EXCEPT !.dict = ("num_outputs" :> ToString(k))] : k \in 1..MaxCount } \cup
  { [name |-> "n", scalars |-> <<1>>, dict |-> ("num_args" :> ToString(k)),
     parsed |-> "P"] : k \in 1..MaxCount }

FewAttrs ==
  {DefaultAttrs,
   [name |-> "n", scalars |-> <<1>>, dict |-> ("num_outputs" :> ToString(MaxCount)),
    parsed |-> "P"]}

CountAttrs ==
  {DefaultAttrs} \cup
  { [DefaultAttrs EXCEPT !.dict = ("num_outputs" :> ToString(k))] : k \in 1..MaxCount }

\* ------------------------------------------------------------- NodeEntry
NodeEntry(p, i, v) == [node |-> p, index |-> i, version |-> v]

\* ------------------------------------------------------------------ Node
\* a Node whose op member has no initializer and comes up as some operator
DefaultNode_OpSet ==
  [op |-> "add", inputs |-> <<>>, control_deps |-> <<>>, attrs |-> DefaultAttrs]

DefaultNode ==
  [op |-> NULL, inputs |-> <<>>, control_deps |-> <<>>, attrs |-> DefaultAttrs]

is_variable(nd) == nd.op = NULL

\* num_outputs that prefers the operator's static count over its callback
num_outputs_StaticFirst(nd) ==
  IF nd.op = NULL THEN 1
  ELSE IF OpTable[nd.op].num_outputs > 0
       THEN OpTable[nd.op].num_outputs
       ELSE ApplyCallback(OpTable[nd.op].get_num_outputs, nd.attrs)

num_outputs(nd) ==
  IF is_variable(nd) THEN 1
  ELSE IF OpTable[nd.op].get_num_outputs = NULL
       THEN OpTable[nd.op].num_outputs
       ELSE ApplyCallback(OpTable[nd.op].get_num_outputs, nd.attrs)

\* num_inputs that reports a placeholder variable as taking no input
num_inputs_VariableZero(nd) ==
  IF nd.op = NULL THEN 0
  ELSE IF OpTable[nd.op].get_num_inputs = NULL
       THEN OpTable[nd.op].num_inputs
       ELSE ApplyCallback(OpTable[nd.op].get_num_inputs, nd.attrs)

\* num_inputs that reports the entries wired so far instead of the declared count
num_inputs_WiredCount(nd) ==
  IF nd.op = NULL THEN 1
  ELSE IF OpTable[nd.op].get_num_inputs = NULL
       THEN Len(nd.inputs)
       ELSE ApplyCallback(OpTable[nd.op].get_num_inputs, nd.attrs)

num_inputs(nd) ==
  IF is_variable(nd) THEN 1
  ELSE IF OpTable[nd.op].get_num_inputs = NULL
       THEN OpTable[nd.op].num_inputs
       ELSE ApplyCallback(OpTable[nd.op].get_num_inputs, nd.attrs)

\* ----------------------------------------------------------------- state
VARIABLES
  alive,      \* alive[n]: the Node object in slot n exists
  nodes,      \* nodes[n]: the fields of the Node object in slot n
  use_count,  \* use_count[n]: strong count of the shared_ptr control block
  ext,        \* ext[n]: NodePtr handles to n held outside the graph
  made,       \* made[c][k]: the (node, index, version) inputs[k] of c was built from
  last        \* the last query made and what it returned

vars == <<alive, nodes, use_count, ext, made, last>>

NoCall == [kind |-> "none", node |-> 0, ret |-> 0]

Init ==
  /\ alive = [n \in Node |-> FALSE]
  /\ nodes = [n \in Node |-> DefaultNode]
  /\ use_count = [n \in Node |-> 0]
  /\ ext = [n \in Node |-> 0]
  /\ made = [n \in Node |-> <<>>]
  /\ last = NoCall

\* ------------------------------------------------------------- ownership
Range(s) == { s[k] : k \in DOMAIN s }

\* the nodes a Node object holds a NodePtr to, one per held pointer
HeldPtrs(nd) == [k \in DOMAIN nd.inputs |-> nd.inputs[k].node] \o nd.control_deps

RECURSIVE ReachFrom(_, _)
ReachFrom(S, ns) ==
  LET T == S \cup UNION { Range(HeldPtrs(ns[n])) : n \in S }
  IN IF T = S THEN S ELSE ReachFrom(T, ns)

\* the nodes the program can still name: held outside, or held by such a node
Reachable == ReachFrom({ n \in Node : ext[n] > 0 }, nodes)

RECURSIVE Release(_, _), ReleaseAll(_, _)
\* a release that destroys the Node while one other owner is left
Release_OffByOne(st, n) ==
  LET cnt == st.use_count[n] - 1
  IN IF cnt > 1
     THEN [st EXCEPT !.use_count[n] = cnt]
     ELSE ReleaseAll([st EXCEPT !.use_count[n] = 0,
                                !.alive[n] = FALSE,
                                !.nodes[n] = DefaultNode,
                                !.made[n] = <<>>],
                     HeldPtrs(st.nodes[n]))

\* a release whose destroyed Node keeps the pointers it holds
Release_NoCascade(st, n) ==
  LET cnt == st.use_count[n] - 1
  IN IF cnt > 0
     THEN [st EXCEPT !.use_count[n] = cnt]
     ELSE [st EXCEPT !.use_count[n] = 0,
                     !.alive[n] = FALSE,
                     !.nodes[n] = DefaultNode,
                     !.made[n] = <<>>]

\* ~shared_ptr<Node>: drop one strong reference to n; the last one destroys
\* the Node, whose members release the pointers they hold
Release(st, n) ==
  LET cnt == st.use_count[n] - 1
  IN IF cnt > 0
     THEN [st EXCEPT !.use_count[n] = cnt]
     ELSE ReleaseAll([st EXCEPT !.use_count[n] = 0,
                                !.alive[n] = FALSE,
                                !.nodes[n] = DefaultNode,
                                !.made[n] = <<>>],
                     HeldPtrs(st.nodes[n]))

ReleaseAll(st, ptrs) ==
  IF ptrs = <<>> THEN st
  ELSE ReleaseAll(Release(st, Head(ptrs)), Tail(ptrs))

Heap == [alive |-> alive, nodes |-> nodes, use_count |-> use_count, made |-> made]

SetHeap(st) ==
  /\ alive' = st.alive
  /\ nodes' = st.nodes
  /\ use_count' = st.use_count
  /\ made' = st.made

\* --------------------------------------------------------------- actions
Create(n) ==
  /\ ~alive[n]
  /\ alive' = [alive EXCEPT ![n] = TRUE]
  /\ nodes' = [nodes EXCEPT ![n] = DefaultNode]
  /\ use_count' = [use_count EXCEPT ![n] = 1]
  /\ ext' = [ext EXCEPT ![n] = 1]
  /\ made' = [made EXCEPT ![n] = <<>>]
  /\ last' = NoCall

CopyPtr(n) ==
  /\ n \in Reachable
  /\ ext[n] < MaxExt
  /\ ext' = [ext EXCEPT ![n] = @ + 1]
  /\ use_count' = [use_count EXCEPT ![n] = @ + 1]
  /\ last' = NoCall
  /\ UNCHANGED <<alive, nodes, made>>

ReleasePtr(n) ==
  /\ ext[n] > 0
  /\ ext' = [ext EXCEPT ![n] = @ - 1]
  /\ SetHeap(Release(Heap, n))
  /\ last' = NoCall

SetOp(n, o) ==
  /\ n \in Reachable
  /\ nodes' = [nodes EXCEPT ![n].op = o]
  /\ last' = NoCall
  /\ UNCHANGED <<alive, use_count, ext, made>>

SetAttrs(n, a) ==
  /\ n \in Reachable
  /\ nodes' = [nodes EXCEPT ![n].attrs = a]
  /\ last' = NoCall
  /\ UNCHANGED <<alive, use_count, ext, made>>

\* an AddInput that bumps the version of an entry it wires
AddInput_BumpVersion(c, p, i, v) ==
  /\ c \in Reachable
  /\ p \in Reachable
  /\ Len(nodes[c].inputs) < MaxInputs
  /\ nodes' = [nodes EXCEPT ![c].inputs = Append(@, NodeEntry(p, i, v + 1))]
  /\ use_count' = [use_count EXCEPT ![p] = @ + 1]
  /\ made' = [made EXCEPT ![c] = Append(@, NodeEntry(p, i, v))]
  /\ last' = NoCall
  /\ UNCHANGED <<alive, ext>>

\* an AddInput that stores the output position counted from one
AddInput_OneBased(c, p, i, v) ==
  /\ c \in Reachable
  /\ p \in Reachable
  /\ Len(nodes[c].inputs) < MaxInputs
  /\ nodes' = [nodes EXCEPT ![c].inputs = Append(@, NodeEntry(p, i + 1, v))]
  /\ use_count' = [use_count EXCEPT ![p] = @ + 1]
  /\ made' = [made EXCEPT ![c] = Append(@, NodeEntry(p, i, v))]
  /\ last' = NoCall
  /\ UNCHANGED <<alive, ext>>

AddInput(c, p, i, v) ==
  /\ c \in Reachable
  /\ p \in Reachable
  /\ Len(nodes[c].inputs) < MaxInputs
  /\ nodes' = [nodes EXCEPT ![c].inputs = Append(@, NodeEntry(p, i, v))]
  /\ use_count' = [use_count EXCEPT ![p] = @ + 1]
  /\ made' = [made EXCEPT ![c] = Append(@, NodeEntry(p, i, v))]
  /\ last' = NoCall
  /\ UNCHANGED <<alive, ext>>

\* an entry copy that clones the producer instead of sharing it
CopyInput_DeepCopy(c, d, k) ==
  /\ c \in Reachable
  /\ d \in Reachable
  /\ k \in DOMAIN nodes[d].inputs
  /\ Len(nodes[c].inputs) < MaxInputs
  /\ \E f \in Node : ~alive[f]
  /\ LET e == nodes[d].inputs[k]
         f == CHOOSE f \in Node : ~alive[f]
     IN /\ alive' = [alive EXCEPT ![f] = TRUE]
        /\ nodes' = [nodes EXCEPT
                       ![f] = [DefaultNode EXCEPT !.op = nodes[e.node].op,
                                                  !.attrs = nodes[e.node].attrs],
                       ![c].inputs = Append(@, [e EXCEPT !.node = f])]
        /\ use_count' = [use_count EXCEPT ![f] = 1]
  /\ made' = [made EXCEPT ![c] = Append(@, made[d][k])]
  /\ last' = NoCall
  /\ UNCHANGED ext

CopyInput(c, d, k) ==
  /\ c \in Reachable
  /\ d \in Reachable
  /\ k \in DOMAIN nodes[d].inputs
  /\ Len(nodes[c].inputs) < MaxInputs
  /\ nodes' = [nodes EXCEPT ![c].inputs = Append(@, nodes[d].inputs[k])]
  /\ use_count' = [use_count EXCEPT ![nodes[d].inputs[k].node] = @ + 1]
  /\ made' = [made EXCEPT ![c] = Append(@, made[d][k])]
  /\ last' = NoCall
  /\ UNCHANGED <<alive, ext>>

AddControlDep(n, m) ==
  /\ n \in Reachable
  /\ m \in Reachable
  /\ Len(nodes[n].control_deps) < MaxDeps
  /\ nodes' = [nodes EXCEPT ![n].control_deps = Append(@, m)]
  /\ use_count' = [use_count EXCEPT ![m] = @ + 1]
  /\ last' = NoCall
  /\ UNCHANGED <<alive, ext, made>>

RemoveControlDep(n) ==
  /\ n \in Reachable
  /\ nodes[n].control_deps # <<>>
  /\ LET deps == nodes[n].control_deps
         m == deps[Len(deps)]
         st == [Heap EXCEPT !.nodes[n].control_deps = SubSeq(deps, 1, Len(deps) - 1)]
     IN SetHeap(Release(st, m))
  /\ last' = NoCall
  /\ UNCHANGED ext

QueryIsVariable(n) ==
  /\ n \in Reachable
  /\ last' = [kind |-> "is_variable", node |-> n,
              ret |-> IF is_variable(nodes[n]) THEN 1 ELSE 0]
  /\ UNCHANGED <<alive, nodes, use_count, ext, made>>

\* a num_outputs that fills the parsed slot of the node it is asked about
QueryNumOutputs_FillParsed(n) ==
  /\ n \in Reachable
  /\ last' = [kind |-> "num_outputs", node |-> n, ret |-> num_outputs(nodes[n])]
  /\ nodes' = [nodes EXCEPT ![n].attrs.parsed = "P"]
  /\ UNCHANGED <<alive, use_count, ext, made>>

QueryNumOutputs(n) ==
  /\ n \in Reachable
  /\ last' = [kind |-> "num_outputs", node |-> n, ret |-> num_outputs(nodes[n])]
  /\ UNCHANGED <<alive, nodes, use_count, ext, made>>

QueryNumInputs(n) ==
  /\ n \in Reachable
  /\ last' = [kind |-> "num_inputs", node |-> n, ret |-> num_inputs(nodes[n])]
  /\ UNCHANGED <<alive, nodes, use_count, ext, made>>

\* ------------------------------------------------ ownership specification
\* graph construction and release over MaxNodes nodes
Next ==
  \/ \E n \in Node : Create(n)
  \/ \E n \in Node : CopyPtr(n)
  \/ \E n \in Node : ReleasePtr(n)
  \/ \E n \in Node, a \in FewAttrs : SetAttrs(n, a)
  \/ \E c, p \in Node : AddInput(c, p, 0, 0)
  \/ \E c, d \in Node, k \in 1..MaxInputs : CopyInput(c, d, k)
  \/ \E n, m \in Node : AddControlDep(n, m)
  \/ \E n \in Node : RemoveControlDep(n)

Spec == Init /\ [][Next]_vars

\* ---------------------------------------------------- arity specification
\* every operator and attribute value on ArityNodes nodes, with the queries
NextArity ==
  \/ \E n \in 1..ArityNodes : Create(n)
  \/ \E n \in 1..ArityNodes, o \in Ops \cup {NULL} : SetOp(n, o)
  \/ \E n \in 1..ArityNodes, a \in AllAttrs : SetAttrs(n, a)
  \/ \E c, p \in 1..ArityNodes : AddInput(c, p, 0, 0)
  \/ \E n, m \in 1..ArityNodes : AddControlDep(n, m)
  \/ \E n \in 1..ArityNodes : QueryIsVariable(n)
  \/ \E n \in 1..ArityNodes : QueryNumOutputs(n)
  \/ \E n \in 1..ArityNodes : QueryNumInputs(n)

SpecArity == Init /\ [][NextArity]_vars

\* ---------------------------------------------------- entry specification
\* entries of every index and version on EntryNodes nodes
NextEntry ==
  \/ \E n \in 1..EntryNodes : Create(n)
  \/ \E n \in 1..EntryNodes : ReleasePtr(n)
  \/ \E n \in 1..EntryNodes, o \in {NULL, "add", "split"} : SetOp(n, o)
  \/ \E n \in 1..EntryNodes, a \in CountAttrs : SetAttrs(n, a)
  \/ \E c, p \in 1..EntryNodes, i \in 0..MaxIndex, v \in 0..MaxVersion :
        c # p /\ AddInput(c, p, i, v)
  \/ \E c, d \in 1..EntryNodes, k \in 1..MaxInputs : CopyInput(c, d, k)

SpecEntry == Init /\ [][NextEntry]_vars

\* ====================================================================
\* Properties
\* ====================================================================
Queries == {"is_variable", "num_outputs", "num_inputs"}
Asked == nodes[last.node]

\* C1: a query of a node whose op is absent answers true for is_variable()
\* and 1 for num_inputs() and num_outputs(), whatever its attrs, inputs and
\* control_deps hold.
C1_VariableArity ==
  (last.kind \in Queries /\ Asked.op = NULL) => last.ret = 1

C1_Witness ==
  /\ last.kind = "num_inputs"
  /\ Asked.op = NULL
  /\ Asked.attrs.dict # EmptyDict
  /\ Asked.attrs.parsed # None
  /\ Asked.inputs # <<>>
  /\ Asked.control_deps # <<>>
  /\ last.ret = 1

\* C2: for a node whose operator has a dynamic-arity callback, num_outputs()
\* (num_inputs()) answers the callback applied to the node's current attrs,
\* also when the operator carries a static count.
C2_DynamicArity ==
  /\ (last.kind = "num_outputs" /\ Asked.op # NULL
        /\ OpTable[Asked.op].get_num_outputs # NULL)
     => last.ret = ApplyCallback(OpTable[Asked.op].get_num_outputs, Asked.attrs)
  /\ (last.kind = "num_inputs" /\ Asked.op # NULL
        /\ OpTable[Asked.op].get_num_inputs # NULL)
     => last.ret = ApplyCallback(OpTable[Asked.op].get_num_inputs, Asked.attrs)

C2_Witness ==
  /\ last.kind = "num_outputs"
  /\ Asked.op = "split"
  /\ OpTable["split"].num_outputs = 1
  /\ Asked.attrs.dict = ("num_outputs" :> ToString(MaxCount))
  /\ last.ret = MaxCount

\* C3: for a node whose operator has a static count and no callback,
\* num_outputs() (num_inputs()) answers that count whatever attrs, inputs
\* and control_deps hold.
C3_StaticArity ==
  /\ (last.kind = "num_outputs" /\ Asked.op # NULL
        /\ OpTable[Asked.op].get_num_outputs = NULL)
     => last.ret = OpTable[Asked.op].num_outputs
  /\ (last.kind = "num_inputs" /\ Asked.op # NULL
        /\ OpTable[Asked.op].get_num_inputs = NULL)
     => last.ret = OpTable[Asked.op].num_inputs

C3_Witness ==
  /\ last.kind = "num_inputs"
  /\ Asked.op = "add"
  /\ Asked.attrs.dict # EmptyDict
  /\ Len(Asked.inputs) = 1
  /\ Asked.control_deps # <<>>
  /\ last.ret = 2

\* C7: a query step changes no field of any node and no reference count, and
\* asking the same query of the same node again, with no mutation in between,
\* gives the same answer.
C7_QueryPure ==
  [][ /\ last'.kind \in Queries
         => (alive' = alive /\ nodes' = nodes /\ use_count' = use_count
             /\ ext' = ext /\ made' = made)
      /\ (last.kind \in Queries /\ last'.kind = last.kind /\ last'.node = last.node)
         => last'.ret = last.ret ]_vars

C7_Witness ==
  /\ last.kind = "num_outputs"
  /\ Asked.op = "split"
  /\ Asked.attrs.dict # EmptyDict
  /\ Asked.attrs.parsed = None
  /\ \E m \in Node : m # last.node /\ alive[m] /\ nodes[m].attrs.parsed = None

\* -------------------------------------------------------------- ownership
\* the NodePtr, NodeEntry.node and control_deps references to n that exist
HolderCount(n) ==
  ext[n] + Cardinality({ mk \in Node \X (1..(MaxInputs + MaxDeps)) :
                           /\ mk[2] \in DOMAIN HeldPtrs(nodes[mk[1]])
                           /\ HeldPtrs(nodes[mk[1]])[mk[2]] = n })

\* C4: a node that some NodePtr, NodeEntry.node or control_deps reference
\* still names is not destroyed.
C4_DestroyedOnlyUnreferenced ==
  \A n \in Node : HolderCount(n) > 0 => alive[n]

\* one of two references to n was released and n lives on through the other
C4_Witness ==
  \E n \in Node : alive[n] /\ ext[n] = 0 /\ HolderCount(n) = 1 /\ use_count[n] = 1

\* C5: two entries, in the inputs of two different consumers, built from the
\* same producer reference one and the same live Node, so both show the same
\* attrs.
C5_EntriesAlias ==
  \A c1, c2 \in Node : \A k1 \in DOMAIN made[c1], k2 \in DOMAIN made[c2] :
    (c1 # c2 /\ made[c1][k1].node = made[c2][k2].node)
    => LET e1 == nodes[c1].inputs[k1]
           e2 == nodes[c2].inputs[k2]
       IN /\ e1.node = e2.node
          /\ e1.node = made[c1][k1].node
          /\ alive[e1.node]
          /\ nodes[e1.node].attrs = nodes[e2.node].attrs

C5_Witness ==
  \E p, c1, c2 \in Node :
    /\ p # c1 /\ p # c2 /\ c1 # c2
    /\ nodes[c1].inputs # <<>> /\ nodes[c1].inputs[1].node = p
    /\ nodes[c2].inputs # <<>> /\ nodes[c2].inputs[1].node = p
    /\ nodes[p].attrs # DefaultAttrs

\* --------------------------------------------------- control_deps cycles
RECURSIVE CtrlReach(_, _)
\* the nodes reached from the set S by one or more control_deps edges
CtrlReach(S, seen) ==
  LET T == UNION { Range(nodes[n].control_deps) : n \in S } \cup seen
  IN IF T = seen THEN seen ELSE CtrlReach(T, T)

OnCtrlCycle(n) == n \in CtrlReach({n}, {})
CtrlCycle(n) == { m \in CtrlReach({n}, {}) : n \in CtrlReach({m}, {}) }

\* some node stays on a cycle of references of either kind and holds n
KeptByCycle(n) ==
  \E m \in Node :
    /\ alive[m]
    /\ m \in ReachFrom(Range(HeldPtrs(nodes[m])), nodes)
    /\ n \in ReachFrom({m}, nodes)

\* C10: a node on a control_deps cycle is destroyed only in a step that pops
\* a control_deps edge of that cycle off a node that lives on; and a live
\* node is always held from outside the graph or by a reference cycle, so
\* that once the cycles are broken and the outside references released the
\* nodes are gone.
C10_CycleLeak ==
  /\ [][ \A n \in Node :
           (alive[n] /\ OnCtrlCycle(n) /\ ~alive'[n])
           => \E a \in CtrlCycle(n) :
                /\ alive'[a]
                /\ Len(nodes'[a].control_deps) < Len(nodes[a].control_deps)
                /\ nodes[a].control_deps[Len(nodes[a].control_deps)] \in CtrlCycle(n)
       ]_vars
  /\ [](\A n \in Node : alive[n] => (n \in Reachable \/ KeptByCycle(n)))

\* a control_deps cycle that no outside reference reaches any more
C10_Witness ==
  \E n \in Node : alive[n] /\ n \notin Reachable /\ OnCtrlCycle(n)
                  /\ Cardinality(CtrlCycle(n)) > 1

\* ----------------------------------------------------------- construction
Entries == { ck \in Node \X (1..MaxInputs) : ck[2] \in DOMAIN nodes[ck[1]].inputs }
EntryAt(ck) == nodes[ck[1]].inputs[ck[2]]
MadeAt(ck) == made[ck[1]][ck[2]]

\* C6: a step that brings a Node into being leaves it with no operator (so
\* a variable of arity 1), empty inputs and control_deps and default attrs;
\* no reference that existed before names it, and no other node changes.
C6_CreateEmpty ==
  [][ \A n \in Node :
        (~alive[n] /\ alive'[n])
        => /\ nodes'[n].op = NULL
           /\ is_variable(nodes'[n])
           /\ num_inputs(nodes'[n]) = 1
           /\ num_outputs(nodes'[n]) = 1
           /\ nodes'[n].inputs = <<>>
           /\ nodes'[n].control_deps = <<>>
           /\ nodes'[n].attrs = [name |-> "", scalars |-> <<>>,
                                 dict |-> EmptyDict, parsed |-> None]
           /\ HolderCount(n) = 0
           /\ use_count'[n] = 1
           /\ \A m \in Node \ {n} : alive'[m] = alive[m] /\ nodes'[m] = nodes[m]
    ]_vars

C6_Witness ==
  \E n, m \in Node :
    /\ n # m /\ alive[n] /\ alive[m]
    /\ nodes[n].op = NULL /\ nodes[n].attrs = DefaultAttrs
    /\ nodes[n].inputs = <<>> /\ use_count[n] = 1 /\ ext[n] = 1
    /\ nodes[m].op # NULL /\ nodes[m].attrs # DefaultAttrs /\ nodes[m].inputs # <<>>

C9_IndexInRange ==
  \A ck \in Entries :
    0 <= EntryAt(ck).index /\ EntryAt(ck).index < num_outputs(nodes[EntryAt(ck).node])

\* C9: every entry in some inputs has index >= 0 and holds the index it was
\* built with, whatever num_outputs() of its node is or becomes.
C9_IndexCarried ==
  \A ck \in Entries :
    0 <= EntryAt(ck).index /\ EntryAt(ck).index = MadeAt(ck).index

C9_Witness ==
  \E ck \in Entries :
    /\ nodes[EntryAt(ck).node].op = "split"
    /\ EntryAt(ck).index >= num_outputs(nodes[EntryAt(ck).node])
    /\ EntryAt(ck).node # ck[1]

====
